---- MODULE Spec2Model ----
(***************************************************************************)
(* Model of the dependency-graph engine of grindlemire/graph-builder:      *)
(* server/pkg/engine/engine.go (Engine, Builder) over a node catalog.      *)
(*                                                                         *)
(* A node is a record [ID, DependsOn]; its Run function is opaque and is   *)
(* modelled by the nondeterministic outcome of the worker that calls it.   *)
(* Go maps are functions with a finite domain; ranging over a map visits   *)
(* its keys in an unspecified order, which is an explicit permutation      *)
(* argument of every operator that ranges over one.                        *)
(***************************************************************************)
EXTENDS Integers, Sequences, FiniteSets, TLC

\* ------------------------------------------------------------------ bounds

\* Number of node IDs the generated catalogs draw from.
NumIds == 3
\* Longest DependsOn list of a generated node.
MaxDeps == 2
\* Longest target list handed to BuildFor.
MaxTargets == 2
\* Number of distinct payloads a run function may return.
NumData == 2
\* Number of times Run is called on one engine.
MaxRuns == 2
\* Number of Register calls made while the program starts.
MaxRegs == 3
\* Number of requests served at the same time, each building and running an engine.
NumEngines == 2

\* The ID alphabet: one-letter strings for the generated catalogs and the IDs of
\* the server's nodes; their lexicographic order (the order of sort.Strings) is
\* their position in Names.
Names == <<"A", "B", "C", "D", "E", "node1", "node2a", "node2b", "node2c", "node3", "node4">>
Universe == {Names[i] : i \in 1..Len(Names)}
IDs == {Names[i] : i \in 1..NumIds}
Rank(id) == CHOOSE i \in 1..Len(Names) : Names[i] = id
StrLess(a, b) == Rank(a) < Rank(b)

\* ------------------------------------------------------------ data model

EmptyMap == [x \in {} |-> x]

\* engine.Node without its Run field.
Node(id, deps) == [ID |-> id, DependsOn |-> deps]

\* engine.Result; ZeroResult is Go's zero value, read from a map for a missing key.
Result(id, d) == [ID |-> id, Data |-> d]
ZeroResult == [ID |-> "", Data |-> 0]
DataVals == 1..NumData

\* error values: nil and the four fmt.Errorf of engine.go.
Nil == [kind |-> "nil", node |-> "", dep |-> ""]
UnknownDepErr(n, d) == [kind |-> "unknown_dependency", node |-> n, dep |-> d]
CycleErr == [kind |-> "cycle", node |-> "", dep |-> ""]
UnknownNodeErr(id) == [kind |-> "unknown_node", node |-> id, dep |-> ""]
NodeFailedErr(id) == [kind |-> "node_failed", node |-> id, dep |-> ""]

\* ---------------------------------------------------------------- helpers

Range(s) == {s[i] : i \in DOMAIN s}
MinOf(S) == CHOOSE x \in S : \A y \in S : x <= y

\* Every order in which a range over a map with key set S may visit the keys.
Perms(S) == {p \in [1..Cardinality(S) -> S] : \A i, j \in DOMAIN p : p[i] = p[j] => i = j}

RECURSIVE InsertSorted(_, _)
InsertSorted(s, x) ==
    IF s = <<>> THEN <<x>>
    ELSE IF StrLess(x, Head(s)) THEN <<x>> \o s
    ELSE <<Head(s)>> \o InsertSorted(Tail(s), x)

\* sort.Strings: the same strings in ascending order.
RECURSIVE SortStrings(_)
SortStrings(s) == IF s = <<>> THEN <<>> ELSE InsertSorted(SortStrings(Tail(s)), Head(s))

\* --------------------------------------------------------- topoSortLevels

\* FirstUnknown naming the node's first dependency instead of the missing one.
FirstUnknownNamesFirstDep(ns, ord) ==
    LET missing(k) == {i \in DOMAIN ns[k].DependsOn : ns[k].DependsOn[i] \notin DOMAIN ns}
        bad == {i \in DOMAIN ord : missing(ord[i]) # {}}
    IN IF bad = {} THEN Nil
       ELSE LET k == ord[MinOf(bad)]
            IN UnknownDepErr(ns[k].ID, ns[k].DependsOn[1])

\* The first loop over e.nodes: the error for the first missing dependency met
\* when the nodes are visited in order ord, or Nil.
FirstUnknown(ns, ord) ==
    LET missing(k) == {i \in DOMAIN ns[k].DependsOn : ns[k].DependsOn[i] \notin DOMAIN ns}
        bad == {i \in DOMAIN ord : missing(ord[i]) # {}}
    IN IF bad = {} THEN Nil
       ELSE LET k == ord[MinOf(bad)]
            IN UnknownDepErr(ns[k].ID, ns[k].DependsOn[MinOf(missing(k))])

\* inDegree after the first loop: len(node.DependsOn) under node.ID.
InDegree(ns) == [id \in DOMAIN ns |-> Len(ns[id].DependsOn)]

\* FirstLevel without the test of the in-degree: every ID goes in level 0.
FirstLevelAll(inDeg, ord) == ord

\* Level 0: the IDs of in-degree 0 in the order ord in which inDegree is ranged over.
FirstLevel(inDeg, ord) ==
    LET isRoot(id) == inDeg[id] = 0
    IN SelectSeq(ord, isRoot)

\* Occurrences looking at the node's first dependency only.
OccurrencesFirstDepOnly(deps, d, id) ==
    IF deps = <<>> THEN <<>>
    ELSE IF Head(deps) = d THEN <<id>> ELSE <<>>

\* Occurrences listing the ID once however often d occurs in deps.
OccurrencesOnce(deps, d, id) == IF d \in Range(deps) THEN <<id>> ELSE <<>>

\* The IDs node k contributes to dependents[d]: its ID once per occurrence of d.
RECURSIVE Occurrences(_, _, _)
Occurrences(deps, d, id) ==
    IF deps = <<>> THEN <<>>
    ELSE (IF Head(deps) = d THEN <<id>> ELSE <<>>) \o Occurrences(Tail(deps), d, id)

RECURSIVE DependentsOf(_, _, _)
DependentsOf(ns, ord, d) ==
    IF ord = <<>> THEN <<>>
    ELSE Occurrences(ns[Head(ord)].DependsOn, d, ns[Head(ord)].ID)
            \o DependentsOf(ns, Tail(ord), d)

\* The reverse adjacency built by ranging over e.nodes in order ord.
Dependents(ns, ord) == [d \in DOMAIN ns |-> DependentsOf(ns, ord, d)]

RECURSIVE Relax(_, _, _)

\* Relax appending the dependent on every decrement, whatever its in-degree.
RelaxNoZeroCheck(ds, inDeg, next) ==
    IF ds = <<>> THEN [inDegree |-> inDeg, nextLevel |-> next]
    ELSE LET d == Head(ds)
             dec == [inDeg EXCEPT ![d] = @ - 1]
         IN Relax(Tail(ds), dec, Append(next, d))

\* The inner loop over dependents[id]: decrement, and append on reaching zero.
Relax(ds, inDeg, next) ==
    IF ds = <<>> THEN [inDegree |-> inDeg, nextLevel |-> next]
    ELSE LET d == Head(ds)
             dec == [inDeg EXCEPT ![d] = @ - 1]
         IN Relax(Tail(ds), dec, IF dec[d] = 0 THEN Append(next, d) ELSE next)

\* The loop over the IDs of the current level.
RECURSIVE RelaxLevel(_, _, _, _)
RelaxLevel(cur, dependents, inDeg, next) ==
    IF cur = <<>> THEN [inDegree |-> inDeg, nextLevel |-> next]
    ELSE LET r == Relax(dependents[Head(cur)], inDeg, next)
         IN RelaxLevel(Tail(cur), dependents, r.inDegree, r.nextLevel)

RECURSIVE LevelLoop(_, _, _, _, _)

\* The loop closing a level after its first ID: the other IDs of the level wait
\* for the next one, so that every level holds one node.
LevelLoopOneByOne(cur, dependents, inDeg, levels, processed) ==
    IF cur = <<>> THEN [levels |-> levels, processed |-> processed]
    ELSE LET r == RelaxLevel(<<Head(cur)>>, dependents, inDeg, <<>>)
         IN LevelLoop(Tail(cur) \o r.nextLevel, dependents, r.inDegree,
                      Append(levels, <<Head(cur)>>), processed + 1)

\* The loop "for len(currentLevel) > 0".
LevelLoop(cur, dependents, inDeg, levels, processed) ==
    IF cur = <<>> THEN [levels |-> levels, processed |-> processed]
    ELSE LET r == RelaxLevel(cur, dependents, inDeg, <<>>)
         IN LevelLoop(r.nextLevel, dependents, r.inDegree,
                      Append(levels, cur), processed + Len(cur))

\* topoSortLevels without the final comparison of processed with len(e.nodes).
topoSortLevelsNoCycleCheck(ns, o1, o2, o3) ==
    LET unknown == FirstUnknown(ns, o1)
    IN IF unknown # Nil THEN [levels |-> <<>>, err |-> unknown]
       ELSE LET r == LevelLoop(FirstLevel(InDegree(ns), o2), Dependents(ns, o3),
                               InDegree(ns), <<>>, 0)
            IN [levels |-> r.levels, err |-> Nil]

\* Engine.topoSortLevels on the node map ns; o1, o2, o3 are the orders of its
\* ranges over e.nodes (validation), inDegree (first level) and e.nodes
\* (dependents).  Returns ([][]string, error); nil levels are <<>>.
topoSortLevels(ns, o1, o2, o3) ==
    LET unknown == FirstUnknown(ns, o1)
    IN IF unknown # Nil THEN [levels |-> <<>>, err |-> unknown]
       ELSE LET r == LevelLoop(FirstLevel(InDegree(ns), o2), Dependents(ns, o3),
                               InDegree(ns), <<>>, 0)
            IN IF r.processed # Cardinality(DOMAIN ns)
               THEN [levels |-> <<>>, err |-> CycleErr]
               ELSE [levels |-> r.levels, err |-> Nil]

\* Every value topoSortLevels may return on ns, over the orders of its map ranges.
\* The validation order o1 decides only which unknown-dependency error is
\* returned, and then o2 and o3 are never used; without such an error o1 decides
\* nothing.  So the results over all (o1, o2, o3) are those over (o1, o0, o0)
\* together with those over (o0, o2, o3), for any one order o0.
PlanResults(ns) ==
    LET P == Perms(DOMAIN ns)
        o0 == CHOOSE o \in P : TRUE
    IN {topoSortLevels(ns, o1, o0, o0) : o1 \in P}
          \cup {topoSortLevels(ns, o0, o2, o3) : o2 \in P, o3 \in P}

\* ---------------------------------------------------------------- BuildFor

RECURSIVE resolve(_, _, _)
RECURSIVE resolveDeps(_, _, _)

\* What resolve and its loops return: the captured map needed as the call left
\* it, the error, and as history the IDs the call descended into (the IDs it
\* added to needed before ranging over their DependsOn), in order.
Resolved(needed, err, trace) == [needed |-> needed, err |-> err, trace |-> trace]

\* resolve that skips an ID missing from the catalog instead of failing.
resolveSkipsMissing(cat, needed, id) ==
    IF id \in DOMAIN needed THEN Resolved(needed, Nil, <<>>)
    ELSE IF id \notin DOMAIN cat THEN Resolved(needed, Nil, <<>>)
    ELSE LET r == resolveDeps(cat, (id :> cat[id]) @@ needed, cat[id].DependsOn)
         IN Resolved(r.needed, r.err, <<id>> \o r.trace)

\* The loop over node.DependsOn that returns after its first iteration.
resolveDepsFirstOnly(cat, needed, deps) ==
    IF deps = <<>> THEN Resolved(needed, Nil, <<>>)
    ELSE resolve(cat, needed, Head(deps))

\* The loop over node.DependsOn resolving every dependency against the map as
\* it was when the loop began, and merging what the iterations added.
resolveDepsOnCopies(cat, needed, deps) ==
    IF deps = <<>> THEN Resolved(needed, Nil, <<>>)
    ELSE LET r == resolve(cat, needed, Head(deps))
         IN IF r.err # Nil THEN r
            ELSE LET q == resolveDeps(cat, needed, Tail(deps))
                 IN Resolved(r.needed @@ q.needed, q.err, r.trace \o q.trace)

\* The closure resolve of BuildFor: needed is the captured map, returned updated.
resolve(cat, needed, id) ==
    IF id \in DOMAIN needed THEN Resolved(needed, Nil, <<>>)
    ELSE IF id \notin DOMAIN cat THEN Resolved(needed, UnknownNodeErr(id), <<>>)
    ELSE LET r == resolveDeps(cat, (id :> cat[id]) @@ needed, cat[id].DependsOn)
         IN Resolved(r.needed, r.err, <<id>> \o r.trace)

\* Its loop over node.DependsOn, returning at the first error.
resolveDeps(cat, needed, deps) ==
    IF deps = <<>> THEN Resolved(needed, Nil, <<>>)
    ELSE LET r == resolve(cat, needed, Head(deps))
         IN IF r.err # Nil THEN r
            ELSE LET q == resolveDeps(cat, r.needed, Tail(deps))
                 IN Resolved(q.needed, q.err, r.trace \o q.trace)

\* The loop over targetNodeIDs that returns after its first iteration.
resolveTargetsFirstOnly(cat, needed, ts) ==
    IF ts = <<>> THEN Resolved(needed, Nil, <<>>)
    ELSE resolve(cat, needed, Head(ts))

\* The loop over targetNodeIDs.
RECURSIVE resolveTargets(_, _, _)
resolveTargets(cat, needed, ts) ==
    IF ts = <<>> THEN Resolved(needed, Nil, <<>>)
    ELSE LET r == resolve(cat, needed, Head(ts))
         IN IF r.err # Nil THEN r
            ELSE LET q == resolveTargets(cat, r.needed, Tail(ts))
                 IN Resolved(q.needed, q.err, r.trace \o q.trace)

\* BuildFor returning the engine over the whole catalog once the targets resolve.
BuildForWholeCatalog(cat, ts) ==
    LET r == resolveTargets(cat, EmptyMap, ts)
    IN IF r.err # Nil THEN [ok |-> FALSE, nodes |-> EmptyMap, err |-> r.err, trace |-> r.trace]
       ELSE [ok |-> TRUE, nodes |-> cat, err |-> Nil, trace |-> r.trace]

\* Builder.BuildFor: (engine, nil) or (nil, err).  The engine is its node map;
\* trace is the history of the descents of resolve.
BuildFor(cat, ts) ==
    LET r == resolveTargets(cat, EmptyMap, ts)
    IN IF r.err # Nil THEN [ok |-> FALSE, nodes |-> EmptyMap, err |-> r.err, trace |-> r.trace]
       ELSE [ok |-> TRUE, nodes |-> r.needed, err |-> Nil, trace |-> r.trace]

\* ------------------------------------------------------------------- state

VARIABLES
    catalog,     \* the registry / catalog: map ID -> Node, complete before any engine is built
    regCalls,    \* history: the nodes handed to Register, in the order of the calls
    built,       \* how the engine was constructed: "none", "New" or "BuildFor"
    targets,     \* the arguments of the BuildFor call
    buildErr,    \* the error BuildFor returned
    nodes,       \* Engine.nodes
    results,     \* Engine.results
    readers,     \* Engine.mu: the workers holding the read lock
    writer,      \* Engine.mu: the worker holding the write lock, or ""
    phase,       \* "registering", "panicked", "init", "buildfailed", "built", "printed",
                 \* "planned", "running", "returned"
    plan,        \* the value a lone call of topoSortLevels returned
    levels,      \* Run's local levels (each level sorted in place when its turn comes)
    levelNum,    \* Run's loop index, from 1
    wg,          \* the level's sync.WaitGroup counter
    errCh,       \* the level's buffered error channel
    errCap,      \* its capacity
    pc,          \* each worker goroutine's position
    depResults,  \* each worker's local depResults map
    ret,         \* each worker's local (result, err) of node.Run
    invoked,     \* history: how often each node's run function was invoked
    sent,        \* history: the node IDs whose errors were sent on errCh, in order
    runErr,      \* the value Run returned
    resultsAt,   \* the address of the map Engine.results refers to, 0 before New
    heap,        \* the contents of the maps New has made, by address; the map of the
                 \* engine whose goroutines are stepping is held in results and is
                 \* written back when the scheduler turns to the other request
    peer,        \* by request: its engine and goroutines while they are not stepping
                 \* (NoEngine for the request that is stepping)
    focus,       \* which request's goroutines are stepping
    testOut      \* the outcome of TestGraphIntegrity, NoTest while it has not run

buildVars == <<catalog, regCalls, built, targets, buildErr, nodes, resultsAt, heap, peer, focus,
               testOut>>
lockVars == <<readers, writer>>
runVars == <<levels, levelNum, wg, errCh, errCap, runErr, sent>>
workerVars == <<pc, depResults, ret, invoked>>
vars == <<buildVars, results, lockVars, phase, plan, runVars, workerVars>>

\* DependsOn lists and catalogs within the bounds.
DepSeqs == UNION {[1..n -> IDs] : n \in 0..MaxDeps}
Catalogs == UNION {{[k \in S |-> Node(k, f[k])] : f \in [S -> DepSeqs]} : S \in SUBSET IDs}

\* The diamond of the specification's concrete scenario.
Diamond ==
    ("A" :> Node("A", <<>>)) @@ ("B" :> Node("B", <<"A">>)) @@
    ("C" :> Node("C", <<"A">>)) @@ ("D" :> Node("D", <<"B", "C">>))

\* The catalogs of the specification's second scenario: D depends on C, C
\* depends on A and B (declared in either order), A and B on nothing.
Funnel(cdeps) ==
    ("A" :> Node("A", <<>>)) @@ ("B" :> Node("B", <<>>)) @@
    ("C" :> Node("C", cdeps)) @@ ("D" :> Node("D", <<"C">>))
Funnels == {Funnel(<<"A", "B">>), Funnel(<<"B", "A">>)}

NoRet == [state |-> "none", result |-> ZeroResult]
NoPlan == [levels |-> <<>>, err |-> [kind |-> "not_called", node |-> "", dep |-> ""]]

\* The IDs of S in ascending order.
RECURSIVE Ascending(_)
Ascending(S) ==
    IF S = {} THEN <<>>
    ELSE LET least == CHOOSE x \in S : \A y \in S : ~StrLess(y, x)
         IN <<least>> \o Ascending(S \ {least})

\* Register calls that leave the catalog cat: one per node.
RegistrationOf(cat) == [i \in 1..Cardinality(DOMAIN cat) |-> cat[Ascending(DOMAIN cat)[i]]]

\* go test has not run TestGraphIntegrity.
NoTest == [ran |-> FALSE]

\* A request that has not built its engine yet.
NoEngine ==
    [built |-> "none", targets |-> <<>>, buildErr |-> Nil, nodes |-> EmptyMap,
     resultsAt |-> 0, results |-> EmptyMap, readers |-> {}, writer |-> "",
     phase |-> "init", plan |-> NoPlan, levels |-> <<>>, levelNum |-> 0, wg |-> 0,
     errCh |-> <<>>, errCap |-> 0, runErr |-> Nil, sent |-> <<>>,
     pc |-> [id \in Universe |-> "idle"], depResults |-> [id \in Universe |-> EmptyMap],
     ret |-> [id \in Universe |-> NoRet], invoked |-> [id \in Universe |-> 0]]

\* No engine exists yet.
NothingBuilt ==
    /\ built = "none"
    /\ targets = <<>>
    /\ buildErr = Nil
    /\ nodes = EmptyMap
    /\ results = EmptyMap
    /\ readers = {}
    /\ writer = ""
    /\ plan = NoPlan
    /\ levels = <<>>
    /\ levelNum = 0
    /\ wg = 0
    /\ errCh = <<>>
    /\ errCap = 0
    /\ pc = [id \in Universe |-> "idle"]
    /\ depResults = [id \in Universe |-> EmptyMap]
    /\ ret = [id \in Universe |-> NoRet]
    /\ invoked = [id \in Universe |-> 0]
    /\ sent = <<>>
    /\ runErr = Nil
    /\ resultsAt = 0
    /\ heap = [a \in 0..NumEngines |-> EmptyMap]
    /\ peer = [i \in 1..NumEngines |-> NoEngine]
    /\ focus = 1
    /\ testOut = NoTest

\* main begins: the init functions have registered the catalog's nodes.
Init ==
    /\ catalog \in Catalogs \cup {Diamond} \cup Funnels
    /\ regCalls = RegistrationOf(catalog)
    /\ phase = "init"
    /\ NothingBuilt

\* ------------------------------------------------------------ registration

\* The program starts: the registry is the empty map of its declaration.
InitRegister ==
    /\ catalog = EmptyMap
    /\ regCalls = <<>>
    /\ phase = "registering"
    /\ NothingBuilt

\* Register storing the node whether or not its ID is registered already.
RegisterOverwrites(reg, node) == [panic |-> FALSE, reg |-> (node.ID :> node) @@ reg]

\* catalog.Register / register.Register on the registry reg: panic on an ID
\* that is registered already, else store the node under its ID.
Register(reg, node) ==
    IF node.ID \in DOMAIN reg THEN [panic |-> TRUE, reg |-> reg]
    ELSE [panic |-> FALSE, reg |-> (node.ID :> node) @@ reg]

\* catalog.All() / register.Registry(): the registry map itself.
All(reg) == reg

\* The nodes an init function may register.
NodeDefs == {Node(id, deps) : id \in IDs, deps \in DepSeqs}

\* An init function calls Register(node); a panic ends the program.
RegisterCall(node) ==
    /\ phase = "registering"
    /\ Len(regCalls) < MaxRegs
    /\ regCalls' = Append(regCalls, node)
    /\ catalog' = Register(catalog, node).reg
    /\ phase' = IF Register(catalog, node).panic THEN "panicked" ELSE "registering"
    /\ UNCHANGED <<built, targets, buildErr, nodes, resultsAt, heap, peer, focus, testOut,
                   results, lockVars, plan, runVars, workerVars>>

NextRegister == \E node \in NodeDefs : RegisterCall(node)

SpecRegister == InitRegister /\ [][NextRegister]_vars

\* ------------------------------------------------------------ construction

\* engine.New(register.Registry()): the engine over the whole registry.
\* make returning the map New made last, whatever is still in use.
MakeMapReused(used) == 1

\* make(map[string]Result) in New: a map at an address no engine's results has.
MakeMap(used) == CHOOSE a \in 1..NumEngines : a \notin used

\* The addresses of the results maps of the engines that exist.
UsedMaps == ({peer[i].resultsAt : i \in 1..NumEngines} \cup {resultsAt}) \ {0}

NewEngine ==
    /\ phase = "init"
    /\ built' = "New"
    /\ nodes' = catalog
    /\ resultsAt' = MakeMap(UsedMaps)
    /\ heap' = [heap EXCEPT ![resultsAt'] = EmptyMap]
    /\ results' = EmptyMap
    /\ phase' = "built"
    /\ UNCHANGED <<catalog, regCalls, targets, buildErr, peer, focus, testOut, lockVars, plan,
                   runVars, workerVars>>

TargetSeqs(cat) == UNION {[1..n -> IDs \cup DOMAIN cat] : n \in 0..MaxTargets}

\* builder.BuildFor(ts...)
BuildForCall(ts) ==
    /\ phase = "init"
    /\ LET b == BuildFor(catalog, ts)
       IN /\ built' = "BuildFor"
          /\ targets' = ts
          /\ buildErr' = b.err
          /\ nodes' = b.nodes
          /\ phase' = IF b.ok THEN "built" ELSE "buildfailed"
          /\ resultsAt' = IF b.ok THEN MakeMap(UsedMaps) ELSE resultsAt
    /\ heap' = [heap EXCEPT ![resultsAt'] = EmptyMap]
    /\ results' = EmptyMap
    /\ UNCHANGED <<catalog, regCalls, peer, focus, testOut, lockVars, plan, runVars, workerVars>>

\* A lone call of e.topoSortLevels(), its map ranges in any order.
PlanCall ==
    /\ phase = "built"
    /\ plan' \in PlanResults(nodes)
    /\ phase' = "planned"
    /\ UNCHANGED <<buildVars, results, lockVars, runVars, workerVars>>

NextPlan ==
    \/ NewEngine
    \/ \E ts \in TargetSeqs(catalog) : BuildForCall(ts)
    \/ PlanCall

SpecPlan == Init /\ [][NextPlan]_vars

\* --------------------------------------------------------------------- Run

\* The head of one iteration of Run's loop over levels: sort the level in place,
\* make errCh with the level's length as capacity, wg.Add(1) and start one
\* goroutine per ID.  A goroutine that was started and has not yet taken a step
\* is at "spawned", so starting them all together loses no interleaving.
StartLevel(lv, n) ==
    /\ levels' = [lv EXCEPT ![n] = SortStrings(@)]
    /\ levelNum' = n
    /\ wg' = Len(lv[n])
    /\ errCh' = <<>>
    /\ errCap' = Len(lv[n])
    /\ sent' = <<>>
    /\ pc' = [id \in Universe |-> IF id \in Range(lv[n]) THEN "spawned" ELSE pc[id]]
    /\ depResults' = [id \in Universe |-> IF id \in Range(lv[n]) THEN EmptyMap ELSE depResults[id]]
    /\ ret' = [id \in Universe |-> IF id \in Range(lv[n]) THEN NoRet ELSE ret[id]]

\* e.Run() up to the start of the first level: plan, return the planning error,
\* return nil when there is no level, or start level 0 (index 1 here).
RunBegin ==
    /\ \E p \in PlanResults(nodes) :
            IF p.err # Nil
            THEN /\ runErr' = p.err
                 /\ phase' = "returned"
                 /\ UNCHANGED <<levels, levelNum, wg, errCh, errCap, sent, pc, depResults, ret>>
            ELSE IF p.levels = <<>>
            THEN /\ runErr' = Nil
                 /\ phase' = "returned"
                 /\ UNCHANGED <<levels, levelNum, wg, errCh, errCap, sent, pc, depResults, ret>>
            ELSE /\ StartLevel(p.levels, 1)
                 /\ phase' = "running"
                 /\ UNCHANGED runErr
    /\ UNCHANGED <<buildVars, results, lockVars, plan, invoked>>

\* e.Run() called on an engine as New or BuildFor returned it.
RunStart == phase = "built" /\ RunBegin

\* e.mu.RLock(): granted while no writer holds the lock.
CanRLock == writer = ""
\* Lock granted whenever no writer holds the lock, readers or not.
CanLockIgnoresReaders == writer = ""

\* e.mu.Lock(): granted while nobody holds the lock.
CanLock == writer = "" /\ readers = {}

WorkerRLock(id) ==
    /\ phase = "running"
    /\ pc[id] = "spawned"
    /\ CanRLock
    /\ readers' = readers \cup {id}
    /\ pc' = [pc EXCEPT ![id] = "rlocked"]
    /\ UNCHANGED <<buildVars, results, writer, phase, plan, runVars, depResults, ret, invoked>>

\* The gather copying every recorded result instead of the declared dependencies'.
GatherAllResults(node, res) == res

\* The loop over node.DependsOn: depResults[depID] = e.results[depID].
GatherDeps(node, res) ==
    [d \in Range(node.DependsOn) |-> IF d \in DOMAIN res THEN res[d] ELSE ZeroResult]

\* The read lock kept after the gather loop.
RUnlockForgotten(rs, id) == rs

\* e.mu.RUnlock() by worker id.
RUnlock(rs, id) == rs \ {id}

\* The gather loop and e.mu.RUnlock().
WorkerGather(id) ==
    /\ pc[id] = "rlocked"
    /\ depResults' = [depResults EXCEPT ![id] = GatherDeps(nodes[id], results)]
    /\ readers' = RUnlock(readers, id)
    /\ pc' = [pc EXCEPT ![id] = "gathered"]
    /\ UNCHANGED <<buildVars, results, writer, phase, plan, runVars, ret, invoked>>

\* node.Run(depResults) is called.
WorkerInvoke(id) ==
    /\ pc[id] = "gathered"
    /\ invoked' = [invoked EXCEPT ![id] = @ + 1]
    /\ pc' = [pc EXCEPT ![id] = "running"]
    /\ UNCHANGED <<buildVars, results, lockVars, phase, plan, runVars, depResults, ret>>

\* node.Run returns a result.
WorkerReturnOk(id, d) ==
    /\ pc[id] = "running"
    /\ ret' = [ret EXCEPT ![id] = [state |-> "ok", result |-> Result(id, d)]]
    /\ pc' = [pc EXCEPT ![id] = "ran"]
    /\ UNCHANGED <<buildVars, results, lockVars, phase, plan, runVars, depResults, invoked>>

\* node.Run returns an error.
WorkerReturnErr(id) ==
    /\ pc[id] = "running"
    /\ ret' = [ret EXCEPT ![id] = [state |-> "err", result |-> ZeroResult]]
    /\ pc' = [pc EXCEPT ![id] = "failed"]
    /\ UNCHANGED <<buildVars, results, lockVars, phase, plan, runVars, depResults, invoked>>

\* The send on a channel made with room for one error.
CanSendRoomForOne == Len(errCh) < 1

\* errCh <- err on the buffered channel: granted while the buffer has room.
CanSend == Len(errCh) < errCap

\* errCh <- fmt.Errorf(...); the return that follows is WorkerDone.
WorkerSendErr(id) ==
    /\ pc[id] = "failed"
    /\ CanSend
    /\ errCh' = Append(errCh, NodeFailedErr(id))
    /\ sent' = Append(sent, id)
    /\ pc' = [pc EXCEPT ![id] = "sent"]
    /\ UNCHANGED <<buildVars, results, lockVars, phase, plan, levels, levelNum, wg, errCap,
                   runErr, depResults, ret, invoked>>

WorkerLock(id) ==
    /\ pc[id] = "ran"
    /\ CanLock
    /\ writer' = id
    /\ pc' = [pc EXCEPT ![id] = "wlocked"]
    /\ UNCHANGED <<buildVars, results, readers, phase, plan, runVars, depResults, ret, invoked>>

\* The store replacing the map by one holding the new entry alone.
StoreResultAlone(res, id, r) == (id :> r)

\* e.results[nodeID] = result
StoreResult(res, id, r) == (id :> r) @@ res

\* e.results[nodeID] = result, under the write lock.
WorkerStore(id) ==
    /\ pc[id] = "wlocked"
    /\ results' = StoreResult(results, id, ret[id].result)
    /\ pc' = [pc EXCEPT ![id] = "stored"]
    /\ UNCHANGED <<buildVars, lockVars, phase, plan, runVars, depResults, ret, invoked>>

\* e.mu.Unlock()
WorkerUnlock(id) ==
    /\ pc[id] = "stored"
    /\ writer' = ""
    /\ pc' = [pc EXCEPT ![id] = "unlocked"]
    /\ UNCHANGED <<buildVars, results, readers, phase, plan, runVars, depResults, ret, invoked>>

\* The goroutine returns, after the send of its error or after the Printf
\* that follows the Unlock: the deferred wg.Done() runs.
WorkerDone(id) ==
    /\ pc[id] \in {"sent", "unlocked"}
    /\ wg' = wg - 1
    /\ pc' = [pc EXCEPT ![id] = "done"]
    /\ UNCHANGED <<buildVars, results, lockVars, phase, plan, levels, levelNum, errCh, errCap,
                   runErr, sent, depResults, ret, invoked>>

\* wg.Wait() returning as soon as one worker of the level is done.
WaitReturnsAfterFirst == wg < errCap

\* wg.Wait() returns once the counter is zero.
WaitReturns == wg = 0

\* The receive dropped: the level's errors are never looked at.
ReceiveNothing(ch) == Nil

\* The receive taking the newest buffered error.
ReceiveNewest(ch) == IF ch = <<>> THEN Nil ELSE ch[Len(ch)]

\* <-errCh after close(errCh): the oldest buffered error, or nil when empty.
Receive(ch) == IF ch = <<>> THEN Nil ELSE Head(ch)

\* wg.Wait(), close(errCh), the receive, and then either the return of the
\* error, the return of nil after the last level, or the next level's start.
Barrier ==
    /\ phase = "running"
    /\ WaitReturns
    /\ IF Receive(errCh) # Nil
       THEN /\ runErr' = Receive(errCh)
            /\ errCh' = Tail(errCh)
            /\ phase' = "returned"
            /\ UNCHANGED <<levels, levelNum, wg, errCap, sent, pc, depResults, ret>>
       ELSE IF levelNum = Len(levels)
       THEN /\ runErr' = Nil
            /\ phase' = "returned"
            /\ UNCHANGED <<levels, levelNum, wg, errCh, errCap, sent, pc, depResults, ret>>
       ELSE /\ StartLevel(levels, levelNum + 1)
            /\ UNCHANGED <<runErr, phase>>
    /\ UNCHANGED <<buildVars, results, lockVars, plan, invoked>>

Worker(id) ==
    \/ WorkerRLock(id)
    \/ WorkerGather(id)
    \/ WorkerInvoke(id)
    \/ \E d \in DataVals : WorkerReturnOk(id, d)
    \/ WorkerReturnErr(id)
    \/ WorkerSendErr(id)
    \/ WorkerLock(id)
    \/ WorkerStore(id)
    \/ WorkerUnlock(id)
    \/ WorkerDone(id)

Next ==
    \/ NewEngine
    \/ \E ts \in TargetSeqs(catalog) : BuildForCall(ts)
    \/ RunStart
    \/ \E id \in Universe : Worker(id)
    \/ Barrier

Spec == Init /\ [][Next]_vars

\* Spec with the scheduling the Go runtime gives a Run whose run functions all
\* return: every goroutine that can take a step eventually takes one.  That is
\* weak fairness of each worker (the return of its run function included) and
\* of the goroutine of Run at the barrier.  A worker waiting for a lock needs no
\* more: each worker of a level takes each lock once, so a lock that is free
\* often is in the end free for good.
Fairness ==
    /\ \A id \in Universe : WF_vars(Worker(id))
    /\ WF_vars(Barrier)

SpecFair == Spec /\ Fairness

\* ------------------------------------------------------ Run called again

\* e.Run() is called again on the engine after the previous call returned.
\* The locals of the previous call (levels, wg, errCh, the workers' depResults
\* and results) are gone; the fields of the engine, e.nodes and e.results, are
\* what the previous call left: nothing in Run or New resets e.results.  The
\* call then proceeds as RunStart.  A node is invoked at most MaxRuns times.
RunAgain ==
    /\ phase = "returned"
    /\ \A id \in Universe : invoked[id] < MaxRuns
    /\ phase' = "built"
    /\ levels' = <<>>
    /\ levelNum' = 0
    /\ wg' = 0
    /\ errCh' = <<>>
    /\ errCap' = 0
    /\ sent' = <<>>
    /\ runErr' = Nil
    /\ pc' = [id \in Universe |-> "idle"]
    /\ depResults' = [id \in Universe |-> EmptyMap]
    /\ ret' = [id \in Universe |-> NoRet]
    /\ UNCHANGED <<buildVars, results, lockVars, plan, invoked>>

NextRerun ==
    \/ NewEngine
    \/ RunStart
    \/ \E id \in Universe : Worker(id)
    \/ Barrier
    \/ RunAgain

SpecRerun == Init /\ [][NextRerun]_vars

\* ------------------------------------------------------------- PrettyPrint

\* The loop of PrettyPrint over the sorted IDs: node := e.nodes[id] copies the
\* struct, whose DependsOn slice still points at the array of the map's node,
\* and sort.Strings(node.DependsOn) sorts that array in place.
SortDependsOn(ns) == [k \in DOMAIN ns |-> Node(ns[k].ID, SortStrings(ns[k].DependsOn))]

\* A node of the engine is a copy of the catalog's node (New is handed the
\* registry map itself, BuildFor copies the struct), so both DependsOn slices
\* share one array: what is written through the engine's node is read through
\* the catalog's.
SharedWithCatalog(cat, ns) == [k \in DOMAIN cat |-> IF k \in DOMAIN ns THEN ns[k] ELSE cat[k]]

\* The levels as PrettyPrint displays them: each level sorted.
Displayed(p) == [levels |-> [i \in DOMAIN p.levels |-> SortStrings(p.levels[i])], err |-> p.err]

\* e.PrettyPrint(): sorts every node's DependsOn in place, then calls
\* topoSortLevels and prints its error or its levels.
PrettyPrintCall ==
    /\ phase = "built"
    /\ nodes' = SortDependsOn(nodes)
    /\ catalog' = SharedWithCatalog(catalog, nodes')
    /\ plan' \in {Displayed(p) : p \in PlanResults(nodes')}
    /\ phase' = "printed"
    /\ UNCHANGED <<regCalls, built, targets, buildErr, resultsAt, heap, peer, focus, testOut,
                   results, lockVars, runVars, workerVars>>

\* e.Run() as the callers in the repository call it: on the engine that
\* e.PrettyPrint() has just displayed.
RunPrinted == phase = "printed" /\ RunBegin

\* A request of server/main.go or the main of basic: build, print, run.
NextPrint ==
    \/ NewEngine
    \/ \E ts \in TargetSeqs(catalog) : BuildForCall(ts)
    \/ PrettyPrintCall
    \/ RunPrinted
    \/ \E id \in Universe : Worker(id)
    \/ Barrier

SpecPrint == Init /\ [][NextPrint]_vars

\* ------------------------------------------------------ the server's nodes

\* The catalog the server's node packages register.
Shipped ==
    ("node1" :> Node("node1", <<>>)) @@
    ("node2a" :> Node("node2a", <<"node1">>)) @@
    ("node2b" :> Node("node2b", <<"node1">>)) @@
    ("node2c" :> Node("node2c", <<"node1">>)) @@
    ("node3" :> Node("node3", <<"node2a", "node2b", "node2c">>)) @@
    ("node4" :> Node("node4", <<"node1">>))

\* The same catalog with the declaration of node4 lacking the dependency its
\* run function reads.
ShippedUndeclared == [Shipped EXCEPT !["node4"] = Node("node4", <<>>)]

\* The nodes whose FromDeps each run function calls.
ShippedUses ==
    [id \in DOMAIN Shipped |->
        IF id = "node1" THEN {}
        ELSE IF id = "node3" THEN {"node2a", "node2b", "node2c"}
        ELSE {"node1"}]

\* The payload of a node's run function: a value of the node package's Output type.
OutputOf(id) == Rank(id)

\* <node>.FromDeps(deps) returns no error: the entry is there and its Data is
\* of the node package's Output type.
FromDepsOk(id, deps) == id \in DOMAIN deps /\ deps[id].Data = OutputOf(id)

\* The run function of a server node: the error of the first failing FromDeps,
\* else its own Output.
ShippedRun(id, deps) ==
    IF \A d \in ShippedUses[id] : FromDepsOk(d, deps)
    THEN [state |-> "ok", result |-> Result(id, OutputOf(id))]
    ELSE [state |-> "err", result |-> ZeroResult]

\* node.Run returns what the server node's run function computes.
WorkerReturnShipped(id) ==
    /\ pc[id] = "running"
    /\ ret' = [ret EXCEPT ![id] = ShippedRun(id, depResults[id])]
    /\ pc' = [pc EXCEPT ![id] = IF ShippedRun(id, depResults[id]).state = "ok" THEN "ran" ELSE "failed"]
    /\ UNCHANGED <<buildVars, results, lockVars, phase, plan, runVars, depResults, invoked>>

WorkerShipped(id) ==
    \/ WorkerRLock(id)
    \/ WorkerGather(id)
    \/ WorkerInvoke(id)
    \/ WorkerReturnShipped(id)
    \/ WorkerSendErr(id)
    \/ WorkerLock(id)
    \/ WorkerStore(id)
    \/ WorkerUnlock(id)
    \/ WorkerDone(id)

\* The target lists of the three requests the server's client sends.
ServerTargets == {<<"node4">>, <<"node3">>, <<"node2a", "node4">>}

InitServer ==
    /\ catalog \in {Shipped, ShippedUndeclared}
    /\ regCalls = RegistrationOf(catalog)
    /\ phase = "init"
    /\ NothingBuilt

\* A request: BuildFor, PrettyPrint, Run.
NextServer ==
    \/ \E ts \in ServerTargets : BuildForCall(ts)
    \/ PrettyPrintCall
    \/ RunPrinted
    \/ \E id \in Universe : WorkerShipped(id)
    \/ Barrier

SpecServer == InitServer /\ [][NextServer]_vars

\* ---------------------------------------------------------- integrity test

\* The state of the no_cycles subtest: its maps visited and recStack (as the
\* sets of the IDs mapped to true), its slice cyclePath, and what hasCycle
\* returned.
Search(found, visited, recStack, cyclePath) ==
    [found |-> found, visited |-> visited, recStack |-> recStack, cyclePath |-> cyclePath]

\* nodes[id].DependsOn in the test: the zero Node of a missing key has none.
DependsOnOf(ns, id) == IF id \in DOMAIN ns THEN ns[id].DependsOn ELSE <<>>

RECURSIVE hasCycle(_, _, _)
RECURSIVE hasCycleDeps(_, _, _)

\* The loop of hasCycle taking every dependency that was visited before for a
\* cycle, whether or not it is on the recursion stack.
hasCycleDepsNoRecStack(ns, st, deps) ==
    IF deps = <<>> THEN Search(FALSE, st.visited, st.recStack, st.cyclePath)
    ELSE LET dep == Head(deps)
         IN IF dep \notin st.visited
            THEN LET r == hasCycle(ns, st, dep)
                 IN IF r.found THEN r ELSE hasCycleDeps(ns, r, Tail(deps))
            ELSE Search(TRUE, st.visited, st.recStack, Append(st.cyclePath, dep))

\* The loop of hasCycle over nodes[id].DependsOn.
hasCycleDeps(ns, st, deps) ==
    IF deps = <<>> THEN Search(FALSE, st.visited, st.recStack, st.cyclePath)
    ELSE LET dep == Head(deps)
         IN IF dep \notin st.visited
            THEN LET r == hasCycle(ns, st, dep)
                 IN IF r.found THEN r ELSE hasCycleDeps(ns, r, Tail(deps))
            ELSE IF dep \in st.recStack
            THEN Search(TRUE, st.visited, st.recStack, Append(st.cyclePath, dep))
            ELSE hasCycleDeps(ns, st, Tail(deps))

\* The closure hasCycle of the no_cycles subtest, on the search state st.
hasCycle(ns, st, id) ==
    LET entered == Search(FALSE, st.visited \cup {id}, st.recStack \cup {id},
                          Append(st.cyclePath, id))
        r == hasCycleDeps(ns, entered, DependsOnOf(ns, id))
    IN IF r.found THEN r
       ELSE Search(FALSE, r.visited, r.recStack \ {id},
                   SubSeq(r.cyclePath, 1, Len(r.cyclePath) - 1))

\* The loop of no_cycles over nodes in the order ord, left at the first cycle.
RECURSIVE noCyclesLoop(_, _, _)
noCyclesLoop(ns, st, ord) ==
    IF ord = <<>> THEN st
    ELSE IF Head(ord) \in st.visited THEN noCyclesLoop(ns, st, Tail(ord))
    ELSE LET r == hasCycle(ns, st, Head(ord))
         IN IF r.found THEN r ELSE noCyclesLoop(ns, r, Tail(ord))

\* The subtest no_cycles: it passes when no t.Errorf was called.
noCycles(ns, ord) ==
    LET r == noCyclesLoop(ns, Search(FALSE, {}, {}, <<>>), ord)
    IN [pass |-> ~r.found, cyclePath |-> r.cyclePath]

\* The subtest dependencies_exist: the (node, dependency) pairs it reports.
dependenciesExist(ns) ==
    LET missing == {<<id, dep>> \in (DOMAIN ns) \X Universe :
                       dep \in Range(ns[id].DependsOn) /\ dep \notin DOMAIN ns}
    IN [pass |-> missing = {}, missing |-> missing]

\* TestGraphIntegrity on the catalog ns, ord the order of the range of
\* no_cycles over it: t.Fatal on the empty catalog, before any subtest; else
\* the outcomes of dependencies_exist and no_cycles.  (The third subtest reads
\* the run.go files, not the catalog.)
TestGraphIntegrity(ns, ord) ==
    IF Cardinality(DOMAIN ns) = 0
    THEN [ran |-> TRUE, fatal |-> TRUE, dependencies_exist |-> FALSE, no_cycles |-> FALSE,
          cyclePath |-> <<>>]
    ELSE [ran |-> TRUE, fatal |-> FALSE,
          dependencies_exist |-> dependenciesExist(ns).pass,
          no_cycles |-> noCycles(ns, ord).pass,
          cyclePath |-> noCycles(ns, ord).cyclePath]

\* go test runs TestGraphIntegrity on catalog.All().
TestCall(ord) ==
    /\ ~testOut.ran
    /\ testOut' = TestGraphIntegrity(All(catalog), ord)
    /\ UNCHANGED <<catalog, regCalls, built, targets, buildErr, nodes, resultsAt, heap, peer,
                   focus, results, lockVars, phase, plan, runVars, workerVars>>

\* The test and the planner on one catalog: go test, and an engine over the
\* whole catalog whose topoSortLevels is called.
NextTest ==
    \/ \E ord \in Perms(DOMAIN catalog) : TestCall(ord)
    \/ NewEngine
    \/ PlanCall

SpecTest == Init /\ [][NextTest]_vars

\* ------------------------------------------------- two requests at a time

\* The engine and the goroutines of the request that is stepping.
EngineState ==
    [built |-> built, targets |-> targets, buildErr |-> buildErr, nodes |-> nodes,
     resultsAt |-> resultsAt, results |-> results, readers |-> readers, writer |-> writer,
     phase |-> phase, plan |-> plan, levels |-> levels, levelNum |-> levelNum, wg |-> wg,
     errCh |-> errCh, errCap |-> errCap, runErr |-> runErr, sent |-> sent,
     pc |-> pc, depResults |-> depResults, ret |-> ret, invoked |-> invoked]

\* The scheduler turns from the goroutines of one request to those of request
\* j. Each request has its own Engine (mutex, nodes and a reference to a
\* results map) and its own goroutines; the catalog and the heap are common.
Switch(j) ==
    /\ j # focus
    /\ peer' = [peer EXCEPT ![focus] = EngineState, ![j] = NoEngine]
    /\ focus' = j
    /\ heap' = [heap EXCEPT ![resultsAt] = results]
    /\ built' = peer[j].built
    /\ targets' = peer[j].targets
    /\ buildErr' = peer[j].buildErr
    /\ nodes' = peer[j].nodes
    /\ resultsAt' = peer[j].resultsAt
    /\ results' = heap'[peer[j].resultsAt]
    /\ readers' = peer[j].readers
    /\ writer' = peer[j].writer
    /\ phase' = peer[j].phase
    /\ plan' = peer[j].plan
    /\ levels' = peer[j].levels
    /\ levelNum' = peer[j].levelNum
    /\ wg' = peer[j].wg
    /\ errCh' = peer[j].errCh
    /\ errCap' = peer[j].errCap
    /\ runErr' = peer[j].runErr
    /\ sent' = peer[j].sent
    /\ pc' = peer[j].pc
    /\ depResults' = peer[j].depResults
    /\ ret' = peer[j].ret
    /\ invoked' = peer[j].invoked
    /\ UNCHANGED <<catalog, regCalls, testOut>>

\* The targets of request i: the first request is GET /graph/small, the others
\* are the custom request of the handler's comment, ?nodes=node2a,node4; their
\* execution sets overlap.
RequestTargets(i) == IF i = 1 THEN <<"node4">> ELSE <<"node2a", "node4">>

InitTwo ==
    /\ catalog = Shipped
    /\ regCalls = RegistrationOf(catalog)
    /\ phase = "init"
    /\ NothingBuilt

\* The requests of server/main.go served concurrently, each BuildFor,
\* PrettyPrint, Run.  The DependsOn lists of the catalog are in ascending
\* order, so the sort of PrettyPrint moves no element of the arrays the
\* engines share.
NextTwo ==
    \/ BuildForCall(RequestTargets(focus))
    \/ PrettyPrintCall
    \/ RunPrinted
    \/ \E id \in Universe : Worker(id)
    \/ Barrier
    \/ \E j \in 1..NumEngines : Switch(j)

SpecTwo == InitTwo /\ [][NextTwo]_vars


\* ------------------------------------------------- vocabulary of the claims

\* The declared dependencies of k in the node map ns.
DepsOf(ns, k) == IF k \in DOMAIN ns THEN Range(ns[k].DependsOn) ELSE {}

\* Every declared dependency is a key of ns.
Closed(ns) == \A k \in DOMAIN ns : DepsOf(ns, k) \subseteq DOMAIN ns

\* The IDs reachable from the set S by following DependsOn any number of hops
\* (S included), inside ns or dangling out of it.
RECURSIVE ReachFrom(_, _)
ReachFrom(ns, S) ==
    LET T == S \cup UNION {DepsOf(ns, k) : k \in S}
    IN IF T = S THEN S ELSE ReachFrom(ns, T)

\* Some node reaches itself through one or more DependsOn edges.
HasCycle(ns) == \E k \in DOMAIN ns : k \in ReachFrom(ns, DepsOf(ns, k))

\* The positions <<level, index>> at which id occurs in the levels lv.
Positions(lv, id) == UNION {{<<i, j>> : j \in {j \in DOMAIN lv[i] : lv[i][j] = id}} : i \in DOMAIN lv}
LevelOf(lv, id) == CHOOSE i \in DOMAIN lv : id \in Range(lv[i])
Placed(lv) == UNION {Range(lv[i]) : i \in DOMAIN lv}

\* --------------------------------------------------------------- C1 .. C3

\* C1: on a node set without cycle whose declared dependencies are all members,
\* topoSortLevels returns no error and levels in which every node of the set
\* occurs exactly once, no other ID occurs, and every node lies in a level
\* strictly after the level of each of its dependencies.
C1_LevelsPartitionAndOrder ==
    (phase = "planned" /\ Closed(nodes) /\ ~HasCycle(nodes)) =>
        /\ plan.err = Nil
        /\ Placed(plan.levels) = DOMAIN nodes
        /\ \A k \in DOMAIN nodes : Cardinality(Positions(plan.levels, k)) = 1
        /\ \A k \in DOMAIN nodes : \A d \in DepsOf(nodes, k) :
               LevelOf(plan.levels, d) < LevelOf(plan.levels, k)

\* A plan of three levels in which a node has dependencies in two different levels.
C1_Witness ==
    /\ phase = "planned" /\ Closed(nodes) /\ ~HasCycle(nodes)
    /\ plan.err = Nil
    /\ \E k \in DOMAIN nodes : \E d1, d2 \in DepsOf(nodes, k) :
           LevelOf(plan.levels, d1) < LevelOf(plan.levels, d2)

\* C2 as stated: on every node set with a dependency cycle topoSortLevels
\* returns the cycle error and no levels.
C2_Original ==
    (phase = "planned" /\ HasCycle(nodes)) =>
        (plan.err = CycleErr /\ plan.levels = <<>>)

\* C2 amended: on every node set with a dependency cycle whose declared
\* dependencies are all members of the set, topoSortLevels returns the cycle
\* error and no levels.
C2_CycleErrorOnClosedSets ==
    (phase = "planned" /\ HasCycle(nodes) /\ Closed(nodes)) =>
        (plan.err = CycleErr /\ plan.levels = <<>>)

\* A closed cyclic set, one of whose nodes has no dependency and was placed
\* before the cycle was detected, and one of whose nodes depends on itself.
C2_Witness ==
    /\ phase = "planned" /\ HasCycle(nodes) /\ Closed(nodes)
    /\ plan.err = CycleErr
    /\ \E k \in DOMAIN nodes : nodes[k].DependsOn = <<>>
    /\ \E k \in DOMAIN nodes : k \in DepsOf(nodes, k)

\* C3: on a node set in which some node declares a dependency that is not a key
\* of the set, topoSortLevels returns no levels and an unknown-dependency error
\* naming a node of the set and a dependency it declares that is absent.
C3_UnknownDependencyError ==
    (phase = "planned" /\ ~Closed(nodes)) =>
        /\ plan.err.kind = "unknown_dependency"
        /\ plan.err.node \in DOMAIN nodes
        /\ plan.err.dep \in DepsOf(nodes, plan.err.node)
        /\ plan.err.dep \notin DOMAIN nodes
        /\ plan.levels = <<>>

\* The error names a node whose first dependency exists and whose second is the
\* missing one, in a set where another node has a missing dependency too.
C3_Witness ==
    /\ phase = "planned" /\ ~Closed(nodes)
    /\ plan.err.kind = "unknown_dependency"
    /\ Len(nodes[plan.err.node].DependsOn) = 2
    /\ nodes[plan.err.node].DependsOn[1] \in DOMAIN nodes
    /\ \E k \in DOMAIN nodes \ {plan.err.node} : ~(DepsOf(nodes, k) \subseteq DOMAIN nodes)

\* --------------------------------------------------------------- C4 .. C5

\* C4: when every ID reachable from the targets is in the catalog, BuildFor
\* returns an engine whose node map holds exactly the targets and the nodes
\* reachable from them, each under its own ID with its catalog definition.
C4_BuildForReachableSet ==
    (built = "BuildFor" /\ ReachFrom(catalog, Range(targets)) \subseteq DOMAIN catalog) =>
        /\ phase # "buildfailed"
        /\ buildErr = Nil
        /\ DOMAIN nodes = ReachFrom(catalog, Range(targets))
        /\ \A k \in DOMAIN nodes : nodes[k] = catalog[k]

\* BuildFor of one target over a diamond: the bottom node is reached along two paths.
C4_Witness ==
    /\ built = "BuildFor" /\ phase = "built" /\ Len(targets) = 1
    /\ \E a, b, c, d \in DOMAIN nodes :
          /\ Cardinality({a, b, c, d}) = 4
          /\ targets = <<d>>
          /\ DepsOf(nodes, d) = {b, c}
          /\ a \in DepsOf(nodes, b) /\ a \in DepsOf(nodes, c)

\* C5: when a target, or an ID reachable from a target, is absent from the
\* catalog, BuildFor returns an unknown-node error for such an ID and no engine,
\* and no run function is invoked.
C5_UnknownNodeNoExecution ==
    (built = "BuildFor" /\ ~(ReachFrom(catalog, Range(targets)) \subseteq DOMAIN catalog)) =>
        /\ phase = "buildfailed"
        /\ buildErr.kind = "unknown_node"
        /\ buildErr.node \in ReachFrom(catalog, Range(targets)) \ DOMAIN catalog
        /\ nodes = EmptyMap
        /\ \A id \in Universe : invoked[id] = 0 /\ pc[id] = "idle"

\* The first target is in the catalog and the missing ID is two hops away from it.
C5_Witness ==
    /\ built = "BuildFor" /\ phase = "buildfailed"
    /\ Len(targets) >= 1 /\ targets[1] \in DOMAIN catalog
    /\ buildErr.node \notin Range(targets)
    /\ buildErr.node \notin DepsOf(catalog, targets[1])

\* -------------------------------------------------------------- C6 .. C10

\* The positions at which a worker's run function has been called.
Started == {"running", "ran", "failed", "sent", "wlocked", "stored", "unlocked", "done"}

\* The positions of a worker between e.mu.Lock() and e.mu.Unlock().
Writing == {"wlocked", "stored"}

\* The nodes of the levels before / after the level of id in Run's levels.
Earlier(id) == UNION {Range(levels[i]) : i \in 1..(LevelOf(levels, id) - 1)}
Later(id) == UNION {Range(levels[i]) : i \in (LevelOf(levels, id) + 1)..Len(levels)}
InLevels(id) == id \in Placed(levels)

\* C6: when a node's run function has started, every worker of every earlier
\* level has finished and its result is in the results store; in particular the
\* result of each dependency of the node is recorded.
C6_LevelBarrier ==
    \A id \in Universe : (InLevels(id) /\ pc[id] \in Started) =>
        /\ \A n \in Earlier(id) :
              /\ pc[n] = "done"
              /\ ret[n].state = "ok"
              /\ n \in DOMAIN results /\ results[n] = ret[n].result
        /\ \A d \in DepsOf(nodes, id) : d \in DOMAIN results /\ d \in Earlier(id)

\* A run function executes in a level that follows a level of two workers.
C6_Witness ==
    /\ phase = "running" /\ levelNum >= 2 /\ Len(levels[levelNum - 1]) = 2
    /\ \E id \in Range(levels[levelNum]) : pc[id] = "running"

\* C7: a run function is invoked with a mapping whose keys are exactly the
\* node's declared dependencies, each with the result that dependency returned
\* and recorded in this Run.
C7_ExactlyDeclaredDeps ==
    \A id \in Universe : (InLevels(id) /\ pc[id] \in Started) =>
        /\ DOMAIN depResults[id] = DepsOf(nodes, id)
        /\ \A d \in DOMAIN depResults[id] :
              /\ ret[d].state = "ok"
              /\ depResults[id][d] = ret[d].result
              /\ depResults[id][d] = results[d]

\* A run function executes with one dependency while the store also holds the
\* result of a node that is not among its dependencies.
C7_Witness ==
    \E id \in Universe :
        /\ InLevels(id) /\ pc[id] = "running"
        /\ depResults[id] # EmptyMap
        /\ DOMAIN results \ DOMAIN depResults[id] # {}

\* C8: when Run on a newly built engine returns nil, the keys of Results() are
\* the IDs of the engine's node set and each entry is what that node's run
\* function returned.
C8_ResultsAfterSuccess ==
    (phase = "returned" /\ runErr = Nil) =>
        /\ DOMAIN results = DOMAIN nodes
        /\ \A id \in DOMAIN nodes :
              ret[id].state = "ok" /\ results[id] = ret[id].result /\ results[id].ID = id

\* A successful Run of three nodes whose run functions returned different payloads.
C8_Witness ==
    /\ phase = "returned" /\ runErr = Nil
    /\ Cardinality(DOMAIN nodes) >= 3
    /\ \E a, b \in DOMAIN results : results[a].Data # results[b].Data

\* The nodes of the level Run was executing when it returned.
CurrentLevel == IF levelNum \in DOMAIN levels THEN Range(levels[levelNum]) ELSE {}
FailedInLevel == {id \in CurrentLevel : ret[id].state = "err"}

\* C9: once a run function has returned an error, no run function of a later
\* level is ever invoked; and when Run has returned, its error is tagged with a
\* node that failed in that level, and the results of the nodes of that level
\* that succeeded and of all earlier levels are in Results().
C9_FailureStopsRun ==
    /\ \A id \in Universe : (InLevels(id) /\ ret[id].state = "err") =>
          \A n \in Later(id) : pc[n] = "idle" /\ invoked[n] = 0
    /\ (phase = "returned" /\ \E id \in Universe : ret[id].state = "err") =>
          /\ runErr.kind = "node_failed"
          /\ runErr.node \in FailedInLevel
          /\ \A n \in UNION {Range(levels[i]) : i \in 1..levelNum} :
                ret[n].state = "ok" => (n \in DOMAIN results /\ results[n] = ret[n].result)
          /\ \A n \in UNION {Range(levels[i]) : i \in 1..(levelNum - 1)} : ret[n].state = "ok"

\* Run returned the error of a node of the second level whose sibling succeeded,
\* with a third level that never ran.
C9_Witness ==
    /\ phase = "returned" /\ runErr.kind = "node_failed"
    /\ levelNum = 2 /\ Len(levels) = 3
    /\ \E n \in CurrentLevel : ret[n].state = "ok" /\ n \in DOMAIN results
    /\ \A n \in Range(levels[3]) : pc[n] = "idle"

\* C10 as stated: the error Run returns is that of the failed node with the
\* lowest ID in the level.
C10_Original ==
    (phase = "returned" /\ runErr.kind = "node_failed") =>
        \A id \in FailedInLevel : ~StrLess(id, runErr.node)

\* C10 amended: the error Run returns is that of the failed node of the level
\* whose worker was the first to send on the error channel.
C10_FirstSentError ==
    (phase = "returned" /\ runErr.kind = "node_failed") =>
        /\ Range(sent) = FailedInLevel
        /\ runErr = NodeFailedErr(sent[1])

\* Two nodes of a level failed and Run returned the error of the one with the
\* higher ID.
C10_Witness ==
    /\ phase = "returned" /\ runErr.kind = "node_failed"
    /\ Cardinality(FailedInLevel) >= 2
    /\ \E id \in FailedInLevel : StrLess(id, runErr.node)

\* --------------------------------------------------------------------- C11

\* The engine's node set cannot be planned: a dependency is missing or there is a cycle.
Unplannable(ns) == ~Closed(ns) \/ HasCycle(ns)

\* C11: when planning fails (a declared dependency is missing from the node
\* set, or the set has a cycle), Run returns that planning error before any
\* level is started: no run function is invoked, not even that of a node
\* without dependencies, no worker is started, and the results store is as it
\* was before the call.
C11_PlanningErrorNoExecution ==
    (phase \in {"running", "returned"} /\ Unplannable(nodes)) =>
        /\ phase = "returned"
        /\ runErr.kind = (IF Closed(nodes) THEN "cycle" ELSE "unknown_dependency")
        /\ levels = <<>> /\ levelNum = 0
        /\ \A id \in Universe : invoked[id] = 0 /\ pc[id] = "idle" /\ ret[id] = NoRet
        /\ results = EmptyMap

\* Run returned the cycle error on a set built by BuildFor that also holds a
\* node without dependencies, which could have been placed in a first level.
C11_Witness ==
    /\ phase = "returned" /\ runErr = CycleErr /\ built = "BuildFor"
    /\ \E k \in DOMAIN nodes : nodes[k].DependsOn = <<>>

\* --------------------------------------------------------------------- C12

\* The entries of the results store that were not recorded by the Run that
\* last returned: its worker for that node did not return a result.
Stale == {id \in DOMAIN results : ret[id].state # "ok"}

\* C12 as stated: after any Run, also a second Run on the same engine and a
\* Run that fails, Results() holds only entries recorded during that Run.
C12_Original ==
    phase = "returned" => Stale = {}

\* --------------------------------------------------------------------- C13

\* C13 as stated: no operation of the engine (BuildFor, PrettyPrint,
\* topoSortLevels, Run, Results) writes to the catalog or to a field of a node
\* definition, the elements of its DependsOn included.
C13_Original ==
    [][catalog' = catalog /\ (phase # "init" => nodes' = nodes)]_vars

\* --------------------------------------------------------------------- C14

\* C14: no worker holds the results lock, for reading or for writing, while
\* its node's run function executes.  A worker holds the read lock only while
\* it copies the results of its dependencies and the write lock only while it
\* stores its own result.
C14_NoLockDuringRun ==
    \A id \in Universe :
        /\ pc[id] = "running" => (id \notin readers /\ writer # id)
        /\ id \in readers <=> pc[id] = "rlocked"
        /\ writer = id <=> pc[id] \in Writing

\* A run function executes, after its worker gathered a dependency's result,
\* while a sibling holds the write lock.
C14_Witness ==
    \E a, b \in Universe :
        /\ pc[a] = "running" /\ depResults[a] # EmptyMap
        /\ writer = b /\ pc[b] = "wlocked"

\* --------------------------------------------------------------------- C15

\* The part of the catalog reachable from the targets.
ReachableCatalog == [k \in ReachFrom(catalog, Range(targets)) \cap DOMAIN catalog |-> catalog[k]]

\* How often resolve descended into id during BuildFor(cat, ts).
Descents(cat, ts, id) ==
    LET t == BuildFor(cat, ts).trace IN Cardinality({i \in DOMAIN t : t[i] = id})

\* C15: BuildFor terminates on every catalog and target list, also when the
\* catalog has cycles or self-dependencies: resolve descends into a node at
\* most once, hence at most once per catalog entry in all, and into exactly the
\* nodes of the engine it returns.  When the reachable part of the catalog is
\* complete and cyclic, BuildFor still returns an engine, over that part, and
\* it is planning that reports the cycle.
C15_BuildForTerminates ==
    built = "BuildFor" =>
        /\ \A id \in Universe : Descents(catalog, targets, id) <= 1
        /\ Len(BuildFor(catalog, targets).trace) <= Cardinality(DOMAIN catalog)
        /\ phase # "buildfailed" => Range(BuildFor(catalog, targets).trace) = DOMAIN nodes
        /\ (ReachFrom(catalog, Range(targets)) \subseteq DOMAIN catalog /\ HasCycle(ReachableCatalog)) =>
              /\ phase # "buildfailed" /\ buildErr = Nil
              /\ nodes = ReachableCatalog
              /\ phase = "planned" => plan.err = CycleErr

\* BuildFor returned an engine over a node that depends on itself and on a node
\* that depends back on it, and planning reported the cycle.
C15_Witness ==
    /\ built = "BuildFor" /\ phase = "planned" /\ plan.err = CycleErr
    /\ \E a, b \in DOMAIN nodes :
          /\ a # b
          /\ nodes[a].DependsOn = <<a, b>>
          /\ a \in DepsOf(nodes, b)

\* --------------------------------------------------------------------- C16

\* The IDs handed to Register so far, and the first node handed in under an ID.
RegisteredIds == {regCalls[i].ID : i \in DOMAIN regCalls}
FirstRegistered(id) == regCalls[MinOf({i \in DOMAIN regCalls : regCalls[i].ID = id})]

\* The catalog as the init functions registered it, which is the catalog the
\* first BuildFor call read.
AsRegistered == [id \in RegisteredIds |-> FirstRegistered(id)]

\* C16: calling BuildFor twice with the same targets yields execution sets of
\* identical membership, and the first call and any PrettyPrint or Run of its
\* engine do not change what the second call returns: in every state after the
\* first call, a second call with the same targets returns what the first
\* call returned, the same error or an engine over the same node map.
C16_Original ==
    built = "BuildFor" =>
        LET first == BuildFor(AsRegistered, targets)
            second == BuildFor(catalog, targets)
        IN /\ second.ok = first.ok
           /\ second.err = first.err
           /\ DOMAIN second.nodes = DOMAIN first.nodes
           /\ second.nodes = first.nodes

\* --------------------------------------------------------------------- C17

\* The levels lv as a sequence of sets.
LevelSets(lv) == [i \in DOMAIN lv |-> Range(lv[i])]

\* C17: on the diamond {A; B: [A]; C: [A]; D: [B, C]}, Run of the engine over
\* the whole catalog plans the levels {A}, {B, C}, {D}, and when it returns nil
\* the results store holds exactly the four entries A, B, C, D.  BuildFor("B")
\* returns the engine over {A, B}, whose Run plans the levels {A}, {B}; C and D
\* are not in that engine, are never run and get no result.
C17_Diamond ==
    catalog = Diamond =>
        /\ (built = "New" /\ phase \in {"running", "returned"}) =>
              /\ runErr.kind \in {"nil", "node_failed"}
              /\ LevelSets(levels) = <<{"A"}, {"B", "C"}, {"D"}>>
              /\ Len(levels[2]) = 2
              /\ (phase = "returned" /\ runErr = Nil) =>
                    (DOMAIN results = {"A", "B", "C", "D"} /\ Cardinality(DOMAIN results) = 4)
        /\ (built = "BuildFor" /\ targets = <<"B">>) =>
              /\ phase # "buildfailed"
              /\ DOMAIN nodes = {"A", "B"}
              /\ phase \in {"running", "returned"} =>
                    (runErr.kind \in {"nil", "node_failed"} /\ LevelSets(levels) = <<{"A"}, {"B"}>>)
              /\ \A id \in {"C", "D"} :
                    invoked[id] = 0 /\ pc[id] = "idle" /\ id \notin DOMAIN results
              /\ (phase = "returned" /\ runErr = Nil) => DOMAIN results = {"A", "B"}

\* The Run of the whole diamond returned nil with four results.
C17_Witness ==
    /\ catalog = Diamond /\ built = "New"
    /\ phase = "returned" /\ runErr = Nil
    /\ Cardinality(DOMAIN results) = 4

\* --------------------------------------------------------------------- C18

\* C18: on a catalog in which D depends on C, C depends on A and B, and A and
\* B depend on nothing, BuildFor("D") returns the engine over {A, B, C, D}, and
\* planning it returns no error and the levels {A, B}, {C}, {D}, each ID once.
C18_TransitiveSubgraph ==
    (catalog \in Funnels /\ built = "BuildFor" /\ targets = <<"D">>) =>
        /\ phase # "buildfailed" /\ buildErr = Nil
        /\ DOMAIN nodes = {"A", "B", "C", "D"}
        /\ phase = "planned" =>
              /\ plan.err = Nil
              /\ LevelSets(plan.levels) = <<{"A", "B"}, {"C"}, {"D"}>>
              /\ Len(plan.levels[1]) = 2

\* The engine for D was planned, on the catalog in which C declares B before
\* A, with B placed before A in the first level.
C18_Witness ==
    /\ catalog = Funnel(<<"B", "A">>) /\ built = "BuildFor" /\ targets = <<"D">>
    /\ phase = "planned"
    /\ plan.levels[1] = <<"B", "A">>

\* --------------------------------------------------------------------- C19

\* The calls of Register that handed in an ID for the second time or later.
DuplicateCalls == {j \in DOMAIN regCalls : \E i \in 1..(j - 1) : regCalls[i].ID = regCalls[j].ID}

\* C19: after any sequence of Register calls the registry holds one entry per
\* distinct ID handed in, under the node's own ID, and the entry is the node of
\* the first call with that ID; a call with an ID that is registered already
\* panics and leaves the registry as it was; All() / Registry() returns every
\* registered node.
C19_RegistryFirstWins ==
    /\ DOMAIN All(catalog) = RegisteredIds
    /\ \A id \in RegisteredIds :
          All(catalog)[id] = FirstRegistered(id) /\ All(catalog)[id].ID = id
    /\ phase = "panicked" <=> DuplicateCalls # {}
    /\ DuplicateCalls \subseteq {Len(regCalls)}

\* The third call handed in the ID of the first with another DependsOn and panicked.
C19_Witness ==
    /\ phase = "panicked" /\ Len(regCalls) = 3
    /\ regCalls[3].ID = regCalls[1].ID /\ regCalls[3] # regCalls[1]
    /\ Cardinality(DOMAIN catalog) = 2

\* --------------------------------------------------------------------- C20

\* The engine the claim expects for each request.
ExpectedMembers(ts) ==
    IF ts = <<"node4">> THEN {"node1", "node4"}
    ELSE IF ts = <<"node3">> THEN {"node1", "node2a", "node2b", "node2c", "node3"}
    ELSE {"node1", "node2a", "node4"}

\* C20: on the server's catalog, BuildFor(node4) returns the engine over
\* {node1, node4}, BuildFor(node3) the engine over {node1, node2a, node2b,
\* node2c, node3}, without node4, and BuildFor("node2a", "node4") the engine
\* over {node1, node2a, node4}; each is planned without error, no run function
\* fails, and Run returns nil with a result for every member.
C20_ShippedCatalog ==
    (catalog = Shipped /\ built = "BuildFor") =>
        /\ phase # "buildfailed" /\ buildErr = Nil
        /\ DOMAIN nodes = ExpectedMembers(targets)
        /\ plan # NoPlan => plan.err = Nil
        /\ \A id \in Universe : ret[id].state # "err" /\ pc[id] # "failed"
        /\ phase = "returned" =>
              /\ runErr = Nil
              /\ Placed(levels) = DOMAIN nodes
              /\ DOMAIN results = DOMAIN nodes

\* The request for node3 was printed and has run to the end: five results.
C20_Witness ==
    /\ catalog = Shipped /\ built = "BuildFor" /\ targets = <<"node3">>
    /\ plan # NoPlan
    /\ phase = "returned" /\ runErr = Nil
    /\ Cardinality(DOMAIN results) = 5

\* --------------------------------------------------------------------- C21

\* The positions of a worker goroutine that exists and has not returned.
Live == {"spawned", "rlocked", "gathered", "running", "ran", "failed", "sent", "wlocked",
         "stored", "unlocked"}

\* C21: Run does not return, with nil or with an error, while a worker it
\* started has not finished: when Run has returned every worker of every level
\* it started is done, also the siblings of a node that failed, each of which
\* ran its run function to its end and, when it succeeded, stored its result.
C21_RunWaitsForSiblings ==
    phase = "returned" =>
        /\ \A id \in Universe : pc[id] \notin Live
        /\ \A i \in 1..levelNum : \A id \in Range(levels[i]) :
              /\ pc[id] = "done" /\ invoked[id] = 1 /\ ret[id].state \in {"ok", "err"}
              /\ ret[id].state = "ok" => (id \in DOMAIN results /\ results[id] = ret[id].result)

\* Run returned the error of a node whose sibling, of a higher ID, succeeded
\* and has its result stored.
C21_Witness ==
    /\ phase = "returned" /\ runErr.kind = "node_failed"
    /\ Cardinality(CurrentLevel) >= 2
    /\ \E n \in CurrentLevel : StrLess(runErr.node, n) /\ ret[n].state = "ok" /\ n \in DOMAIN results

\* --------------------------------------------------------------------- C22

\* The workers whose depResults changes in a step: those that read the results map.
ReadersOfStep == {id \in Universe : depResults'[id] # depResults[id]}

\* C22: in every state at most one worker is between Lock and Unlock, and then
\* no worker is between RLock and RUnlock; every step that changes the results
\* map is the store of the one worker holding the write lock, and adds that
\* worker's entry only; every step in which a worker copies from the results
\* map is taken by a worker holding the read lock, while nobody holds the write
\* lock, and leaves the map as it is.
C22_LockDiscipline ==
    /\ [](/\ Cardinality({id \in Universe : pc[id] \in Writing}) <= 1
          /\ writer # "" => (readers = {} /\ pc[writer] \in Writing)
          /\ \A id \in readers : pc[id] = "rlocked")
    /\ [][/\ results' # results =>
                /\ writer # "" /\ pc[writer] = "wlocked" /\ readers = {}
                /\ results' = StoreResult(results, writer, ret[writer].result)
                /\ ReadersOfStep = {}
          /\ ReadersOfStep # {} =>
                /\ ReadersOfStep \subseteq readers
                /\ Cardinality(ReadersOfStep) = 1
                /\ writer = ""
                /\ results' = results]_vars

\* A worker that has its result waits for the lock while a sibling holds the
\* read lock on a map that already has an entry.
C22_Witness ==
    /\ results # EmptyMap
    /\ \E a, b \in Universe : a # b /\ pc[a] = "ran" /\ b \in readers /\ nodes[b].DependsOn # <<>>

\* --------------------------------------------------------------------- C23

\* The highest level of lv that holds a dependency of k.
DeepestDep(ns, lv, k) ==
    CHOOSE i \in DOMAIN lv :
        /\ \E d \in DepsOf(ns, k) : LevelOf(lv, d) = i
        /\ \A d \in DepsOf(ns, k) : LevelOf(lv, d) <= i

\* C23: in every plan topoSortLevels returns, the first level holds exactly
\* the nodes without dependencies, every other node lies in the level that
\* follows the highest level of its dependencies, and no level is empty; so a
\* node of a level after the first has a dependency in the level just before.
C23_EarliestLevel ==
    (phase = "planned" /\ plan.err = Nil) =>
        /\ \A i \in DOMAIN plan.levels : plan.levels[i] # <<>>
        /\ nodes # EmptyMap =>
              Range(plan.levels[1]) = {k \in DOMAIN nodes : nodes[k].DependsOn = <<>>}
        /\ \A k \in DOMAIN nodes : nodes[k].DependsOn # <<>> =>
              /\ LevelOf(plan.levels, k) = 1 + DeepestDep(nodes, plan.levels, k)
              /\ \E d \in DepsOf(nodes, k) : LevelOf(plan.levels, d) = LevelOf(plan.levels, k) - 1

\* A node of the third level has a dependency in the first level besides the
\* one in the second.
C23_Witness ==
    /\ phase = "planned" /\ plan.err = Nil /\ Len(plan.levels) = 3
    /\ \E k \in Range(plan.levels[3]) : \E d \in DepsOf(nodes, k) : d \in Range(plan.levels[1])

\* --------------------------------------------------------------------- C24

\* C24: with every goroutine scheduled fairly and every run function that is
\* invoked returning, a Run that started its workers eventually returns; and
\* a worker whose run function failed can always send its error at once,
\* however many nodes of its level failed.
C24_RunTerminates ==
    /\ [](\A id \in Universe : pc[id] = "failed" => CanSend)
    /\ (phase = "running") ~> (phase = "returned")

\* Run returned after two workers of one level had sent their errors.
C24_Witness ==
    /\ phase = "returned" /\ runErr.kind = "node_failed"
    /\ Len(sent) >= 2 /\ errCap >= 2

\* --------------------------------------------------------------------- C25

\* The execution set the construction call asks for: the whole registry for
\* New, the targets and what they reach for BuildFor.
Wanted == IF built = "BuildFor" THEN ReachFrom(catalog, Range(targets)) ELSE DOMAIN catalog

\* C25: in one Run the run function of a node is invoked at most once, and by
\* at most one worker; when Run returns nil, the run function of every node of
\* the execution set was invoked exactly once; the run function of a catalog
\* node that is neither a target nor reachable from one is never invoked.
C25_InvokedAtMostOnce ==
    /\ \A id \in Universe : invoked[id] <= 1
    /\ \A id \in Universe : pc[id] \in Started <=> invoked[id] = 1
    /\ \A id \in Universe \ Wanted : invoked[id] = 0 /\ pc[id] = "idle"
    /\ (phase = "returned" /\ runErr = Nil) =>
          (DOMAIN nodes = Wanted /\ \A id \in Wanted : invoked[id] = 1)

\* A Run of two nodes or more returned nil on an engine that leaves a node of
\* the catalog out.
C25_Witness ==
    /\ built = "BuildFor" /\ phase = "returned" /\ runErr = Nil
    /\ Cardinality(DOMAIN nodes) >= 2
    /\ DOMAIN catalog \ DOMAIN nodes # {}

\* --------------------------------------------------------------------- C26

\* The IDs of s are in ascending lexicographic order.
IsAscending(s) == \A i \in 1..(Len(s) - 1) : StrLess(s[i], s[i + 1])

\* C26: on the node set of an engine, every order in which the node map may
\* be ranged over makes topoSortLevels return the same levels, compared as
\* sets; every level Run has sorted and started, and every level PrettyPrint
\* displayed, has its IDs in ascending order; and the levels PrettyPrint
\* displayed are, as sets, the levels Run executes.
C26_PlanDeterministic ==
    /\ phase \in {"built", "printed"} =>
          \A p, q \in PlanResults(nodes) :
              LevelSets(p.levels) = LevelSets(q.levels) /\ (p.err = Nil <=> q.err = Nil)
    /\ phase \in {"running", "returned"} =>
          \A i \in 1..levelNum : IsAscending(levels[i])
    /\ plan # NoPlan =>
          /\ \A i \in DOMAIN plan.levels : IsAscending(plan.levels[i])
          /\ phase \in {"running", "returned"} => LevelSets(plan.levels) = LevelSets(levels)

\* After a PrettyPrint, Run executes its first level while its second level,
\* not yet sorted, lists its IDs in descending order.
C26_Witness ==
    /\ phase = "running" /\ plan # NoPlan
    /\ levelNum = 1 /\ Len(levels) >= 2
    /\ ~IsAscending(levels[2])

\* --------------------------------------------------------------------- C27

\* C27: the node set of every engine BuildFor returns holds every dependency
\* its nodes declare, so planning it never returns the unknown-dependency
\* error: it returns no error or the cycle error, and the cycle error exactly
\* when a node on a cycle of the catalog is a target or reachable from one.
C27_BuiltEnginesClosed ==
    (built = "BuildFor" /\ phase # "buildfailed") =>
        /\ Closed(nodes)
        /\ FirstUnknown(nodes, Ascending(DOMAIN nodes)) = Nil
        /\ phase = "planned" =>
              /\ plan.err \in {Nil, CycleErr}
              /\ plan.err = CycleErr <=> HasCycle(ReachableCatalog)

\* The catalog has a cycle that is not reachable from the targets, and the engine of two nodes or more was planned without error.
C27_Witness ==
    /\ built = "BuildFor" /\ phase = "planned" /\ plan.err = Nil
    /\ Cardinality(DOMAIN nodes) >= 2
    /\ HasCycle(catalog)

\* --------------------------------------------------------------------- C28

\* Request i's engine and goroutines.
EngineOf(i) == IF focus = i THEN EngineState ELSE peer[i]

\* What e.Results() returns for request i's engine: the map its results
\* field refers to.
ResultsOf(i) == IF focus = i THEN results ELSE heap[peer[i].resultsAt]

\* C28: engines built from one catalog and run concurrently are isolated.
\* A step changes the results map of an engine only if it is a step of that
\* engine's own request (its BuildFor or one of its workers); the map of an
\* engine never holds an ID outside its execution set, and every value in it
\* is the one the engine's own worker got from the node's run function; once
\* all Runs have returned, an engine whose Run returned nil holds exactly the
\* IDs of its execution set.
C28_EnginesIsolated ==
    /\ [](\A i \in 1..NumEngines :
            /\ DOMAIN ResultsOf(i) \subseteq DOMAIN EngineOf(i).nodes
            /\ \A id \in DOMAIN ResultsOf(i) :
                   ResultsOf(i)[id] = EngineOf(i).ret[id].result
            /\ ((\A j \in 1..NumEngines : EngineOf(j).phase = "returned")
                   /\ EngineOf(i).runErr = Nil)
                   => DOMAIN ResultsOf(i) = DOMAIN EngineOf(i).nodes)
    /\ [][\A i \in 1..NumEngines :
            ResultsOf(i)' # ResultsOf(i) => focus = i /\ focus' = i]_vars

\* Every request has run to the end, two of them without error on different
\* execution sets, and their workers got different values for the node they
\* share.
C28_Witness ==
    /\ \A j \in 1..NumEngines : EngineOf(j).phase = "returned"
    /\ \E i, j \in 1..NumEngines :
           /\ EngineOf(i).runErr = Nil /\ EngineOf(j).runErr = Nil
           /\ DOMAIN EngineOf(i).nodes # DOMAIN EngineOf(j).nodes
           /\ "node1" \in DOMAIN ResultsOf(i) \cap DOMAIN ResultsOf(j)
           /\ ResultsOf(i)["node1"] # ResultsOf(j)["node1"]

\* --------------------------------------------------------------------- C29

\* deps without its repeated entries: the first occurrence of each ID is kept.
RECURSIVE Dedup(_)
Dedup(deps) ==
    IF deps = <<>> THEN <<>>
    ELSE LET front == Dedup(SubSeq(deps, 1, Len(deps) - 1))
             last == deps[Len(deps)]
         IN IF last \in Range(front) THEN front ELSE Append(front, last)

DedupNodes(ns) == [k \in DOMAIN ns |-> Node(ns[k].ID, Dedup(ns[k].DependsOn))]

\* The nodes of ns that list a dependency more than once.
Repeating(ns) == {k \in DOMAIN ns : Dedup(ns[k].DependsOn) # ns[k].DependsOn}

\* C29: DependsOn behaves as a set.  When a node of the catalog lists a
\* dependency more than once, BuildFor succeeds or fails as on the catalog
\* without the repeated entries and returns the same set of IDs; when a node of
\* the engine does, topoSortLevels returns what it returns without the
\* repeated entries, Run's levels hold every node once, and the mapping a
\* worker passes to the run function is the one gathered from the
\* dependencies without repetition.
C29_DependsOnAsSet ==
    /\ (built = "BuildFor" /\ Repeating(catalog) # {}) =>
           LET b == BuildFor(DedupNodes(catalog), targets)
           IN /\ b.ok = (phase # "buildfailed")
              /\ b.err = buildErr
              /\ DOMAIN b.nodes = DOMAIN nodes
    /\ (phase = "built" /\ Repeating(nodes) # {}) =>
           PlanResults(nodes) = PlanResults(DedupNodes(nodes))
    /\ (phase \in {"running", "returned"} /\ levels # <<>> /\ Repeating(nodes) # {}) =>
           \A id \in DOMAIN nodes : Cardinality(Positions(levels, id)) = 1
    /\ \A id \in Repeating(nodes) :
           pc[id] \in {"gathered"} \cup Started =>
               depResults[id] = GatherDeps(DedupNodes(nodes)[id], results)

\* An engine built by BuildFor holds a node that lists a dependency twice; Run
\* has returned nil and the node's worker passed a mapping of one entry.
C29_Witness ==
    /\ built = "BuildFor" /\ phase = "returned" /\ runErr = Nil
    /\ \E id \in Repeating(nodes) :
           /\ pc[id] = "done"
           /\ Len(nodes[id].DependsOn) = 2
           /\ Cardinality(DOMAIN depResults[id]) = 1

\* --------------------------------------------------------------------- C30

\* The target lists within the bound that name the same set of targets as ts.
SameTargets(ts) == {us \in TargetSeqs(catalog) : Range(us) = Range(ts)}

\* C30: the execution set BuildFor returns depends only on the set of the
\* targets.  BuildFor of the same targets in another order, or with a target
\* repeated or dropped from a repetition, succeeds exactly when this call did
\* and returns the same node map; for every way of cutting the targets in T1
\* followed by T2, the call succeeds exactly when BuildFor(T1) and BuildFor(T2)
\* both do, and its node map is the union of theirs.  BuildFor with no targets
\* returns an engine with the empty node map, and its Run returns nil with the
\* results store empty.
C30_TargetsAsSet ==
    /\ (built = "BuildFor" /\ phase \in {"built", "buildfailed"}) =>
           /\ \A us \in SameTargets(targets) :
                  LET b == BuildFor(catalog, us)
                  IN /\ b.ok = (phase = "built")
                     /\ b.nodes = nodes
           /\ \A i \in 0..Len(targets) :
                  LET b1 == BuildFor(catalog, SubSeq(targets, 1, i))
                      b2 == BuildFor(catalog, SubSeq(targets, i + 1, Len(targets)))
                  IN /\ (b1.ok /\ b2.ok) = (phase = "built")
                     /\ phase = "built" =>
                            /\ DOMAIN nodes = DOMAIN b1.nodes \cup DOMAIN b2.nodes
                            /\ nodes = b1.nodes @@ b2.nodes
    /\ (built = "BuildFor" /\ targets = <<>>) =>
           /\ phase \in {"built", "returned"}
           /\ buildErr = Nil
           /\ nodes = EmptyMap
           /\ results = EmptyMap
           /\ phase = "returned" => runErr = Nil

\* BuildFor succeeded on two different targets whose closures differ and
\* neither contains the other.
C30_Witness ==
    /\ built = "BuildFor" /\ phase = "built"
    /\ Len(targets) = 2 /\ targets[1] # targets[2]
    /\ LET b1 == BuildFor(catalog, <<targets[1]>>)
           b2 == BuildFor(catalog, <<targets[2]>>)
       IN /\ ~(DOMAIN b1.nodes \subseteq DOMAIN b2.nodes)
          /\ ~(DOMAIN b2.nodes \subseteq DOMAIN b1.nodes)
          /\ Cardinality(DOMAIN nodes) >= 3

\* --------------------------------------------------------------------- C31

\* The test has run on the catalog and topoSortLevels has returned for the
\* engine over the whole catalog.
TestedAndPlanned == testOut.ran /\ built = "New" /\ phase = "planned"

\* The two checks of the test ran and passed.
ChecksPass == ~testOut.fatal /\ testOut.dependencies_exist /\ testOut.no_cycles

\* C31 as stated, for every catalog: the two checks pass exactly when
\* topoSortLevels returns no error.
C31_Original == TestedAndPlanned => (ChecksPass <=> plan.err = Nil)

\* C31: the integrity test and the planner agree on every catalog that is not
\* empty: the test's two checks pass exactly when topoSortLevels on the whole
\* catalog returns no error, and when every declared dependency exists the
\* search reports a cycle exactly when the planner returns 'cycle detected'.
\* On the empty catalog the test fails before its checks run, while the
\* planner returns no error.
C31_TestAgreesWithPlanner ==
    TestedAndPlanned =>
        /\ testOut.fatal <=> catalog = EmptyMap
        /\ testOut.fatal => plan.err = Nil
        /\ ~testOut.fatal =>
               /\ ChecksPass <=> plan.err = Nil
               /\ testOut.dependencies_exist <=> Closed(catalog)
               /\ testOut.dependencies_exist => (~testOut.no_cycles <=> plan.err = CycleErr)
               /\ ~testOut.no_cycles =>
                      /\ Len(testOut.cyclePath) >= 2
                      /\ testOut.cyclePath[Len(testOut.cyclePath)]
                             \in Range(SubSeq(testOut.cyclePath, 1, Len(testOut.cyclePath) - 1))

\* The test ran on a catalog without missing dependency in which one node
\* depends on two others that share a dependency; the search went through the
\* shared node twice, found no cycle, and the planner returned levels.
C31_Witness ==
    /\ TestedAndPlanned /\ ChecksPass /\ plan.err = Nil
    /\ \E k \in DOMAIN catalog : \E a, b \in DepsOf(catalog, k) :
           a # b /\ DepsOf(catalog, a) \cap DepsOf(catalog, b) # {}
====
